---- MODULE Spec2Model ----
(***************************************************************************)
(* Model of the sumo-proxy interception-and-relay engine.                  *)
(*                                                                         *)
(* Two programs of the repository are modelled, selected by `variant`:     *)
(*   "proxy" : src/proxy.py       (ports rewritten by +1 / -1, two relay   *)
(*                                 listeners, configurable repeaters)      *)
(*   "sumo"  : src/sumo-proxy.py  (handshake relayed unmodified, relay on  *)
(*                                 the negotiated ports, shared listener   *)
(*                                 when the two ports coincide, one fixed  *)
(*                                 repeater)                               *)
(* The state is the supervisor loop of __main__, the session process with  *)
(* the position of start(), the threads of proxy_init (serving thread,     *)
(* handler, tidy threads) and of proxy_session (relay listeners and the    *)
(* watchdog loop).                                                         *)
(***************************************************************************)
EXTENDS Integers, Sequences, FiniteSets

\* ------------------------------------------------------------------ bounds
\* Largest port a client listens on; devices listen on 2 .. MaxPort + 1 (so
\* that the port below a device's is a port too).
MaxPort == 2
\* Largest number of repeaters (observer sinks) passed to SumoProxy: proxy.py
\* runs with none or with this many, sumo-proxy.py with its one fixed sink.
MaxRepeaters == 2
\* Largest number of client connections that reach the init listener in one
\* session.
MaxConn == 2
\* Number of local addresses returned by ip_addresses().
NumAddrs == 1

\* --------------------------------------------------------------- constants
Variants == {"proxy", "sumo"}
ClientPorts == 1 .. MaxPort
DevicePorts == 2 .. (MaxPort + 1)
SumoIp == "sumo"
ClientIp == "client"
OtherIp == "other"
\* Source addresses a datagram can carry.
SrcIps == {ClientIp, SumoIp, OtherIp}
\* Datagram payloads: sequences of bytes; one of them starts with a marker byte.
Payloads == {<<"x">>, <<">", "x">>}
\* The init port found by discovery (info.port).
InitPort == 9
\* REPEAT_HOST / REPEAT_PORT of sumo-proxy.py, as one sink name.
RepeatSink == "repeat"
\* The i-th entry of the repeaters list of proxy.py.
Sink(i) == <<"sink", i>>

\* ------------------------------------------------------- handshake payload
\* A handshake message on the wire is a sequence of tokens: an opening brace,
\* key/value members in wire order, a closing brace and the trailing NUL.
Tok(k, v) == [k |-> k, v |-> v]
Open == Tok("{", 0)
Close == Tok("}", 0)
Nul == Tok("NUL", 0)
Structural == {"{", "}", "NUL"}

\* data[:-1]
StripLast(data) == SubSeq(data, 1, Len(data) - 1)

\* json.loads succeeds: an object, i.e. brace, members, brace and nothing else.
JsonValid(text) ==
    /\ Len(text) >= 2
    /\ text[1] = Open
    /\ text[Len(text)] = Close
    /\ \A i \in 2 .. (Len(text) - 1) : text[i].k \notin Structural

\* json.loads: the mapping of the object (a later duplicate member wins).
JsonLoads(text) ==
    LET keys == {text[i].k : i \in 2 .. (Len(text) - 1)}
        last(k) == CHOOSE i \in 2 .. (Len(text) - 1) :
                      /\ text[i].k = k
                      /\ \A j \in (i + 1) .. (Len(text) - 1) : text[j].k # k
    IN  [k \in keys |-> text[last(k)].v]

\* Iteration order of a dict: fixed by the keys, not by the wire order.
DictOrder == <<"status", "c2d_port", "other", "d2c_port">>

RECURSIVE DumpMembers(_, _)
DumpMembers(obj, i) ==
    IF i > Len(DictOrder) THEN <<>>
    ELSE (IF DictOrder[i] \in DOMAIN obj
          THEN <<Tok(DictOrder[i], obj[DictOrder[i]])>>
          ELSE <<>>) \o DumpMembers(obj, i + 1)

\* json.dumps(json_data)
JsonDumps(obj) == <<Open>> \o DumpMembers(obj, 1) \o <<Close>>

\* prox_d2c_port = client_d2c_port + 1
ProxD2C(client_d2c_port) == client_d2c_port + 1

\* Variant of ProxC2D: the busy sentinel is passed through unchanged.
ProxC2DKeepBusy(sumo_c2d_port) == IF sumo_c2d_port = 0 THEN 0 ELSE sumo_c2d_port - 1

\* prox_c2d_port = sumo_c2d_port - 1
ProxC2D(sumo_c2d_port) == sumo_c2d_port - 1

\* json_data['d2c_port'] = prox_d2c_port; data = json.dumps(json_data) + '\x00'
RewriteRequest(data) ==
    LET json_data == JsonLoads(StripLast(data))
    IN  JsonDumps([json_data EXCEPT !["d2c_port"] = ProxD2C(@)]) \o <<Nul>>

\* Variant of RewriteResponse: only the port member is serialised again.
RewriteResponsePortOnly(data) ==
    LET json_data == JsonLoads(StripLast(data))
    IN  <<Open, Tok("c2d_port", ProxC2D(json_data["c2d_port"])), Close, Nul>>

\* json_data['c2d_port'] = prox_c2d_port; data = json.dumps(json_data) + '\x00'
RewriteResponse(data) ==
    LET json_data == JsonLoads(StripLast(data))
    IN  JsonDumps([json_data EXCEPT !["c2d_port"] = ProxC2D(@)]) \o <<Nul>>

\* Variant of ForwardRequest: the request is passed on as it was received.
ForwardRequestRaw(v, data) == data

\* What the handler passes on to the device, per program.
ForwardRequest(v, data) == IF v = "proxy" THEN RewriteRequest(data) ELSE data

\* What the handler passes back to the client, per program.
ForwardResponse(v, data) == IF v = "proxy" THEN RewriteResponse(data) ELSE data

\* Requests a client listening on port p can send: the port member first or
\* last, or missing.
ClientMsgs(p) ==
    {<<Open, Tok("d2c_port", p), Tok("other", 7), Close, Nul>>,
     <<Open, Tok("other", 7), Tok("d2c_port", p), Close, Nul>>,
     <<Open, Tok("other", 7), Close, Nul>>}

\* Responses a device listening on port q can send: its port, or 0 when it is
\* already in a session; the port member first or last, or missing.
DeviceMsgs(q) ==
    {<<Open, Tok("status", 0), Tok("c2d_port", c), Close, Nul>> : c \in {q, 0}}
    \cup {<<Open, Tok("c2d_port", c), Tok("status", 0), Close, Nul>> : c \in {q, 0}}
    \cup {<<Open, Tok("status", 0), Close, Nul>>}

\* What one recv() can return of a message: all of it, or a proper prefix.
Chunks(msg) == {SubSeq(msg, 1, n) : n \in 1 .. Len(msg)}

\* ------------------------------------------------------------------- state
VARIABLES
    variant,        \* which program runs: "proxy" (proxy.py) or "sumo" (sumo-proxy.py)
    repeaters,      \* proxy_session: number of repeaters read from self._repeaters
    peers,          \* the ports the client and the device listen on
    mainPc,         \* position of the __main__ loop
    procState,      \* the session process: "none", "running", "exited"
    stage,          \* position of start() in the session process
    err,            \* the exception start() raised, or "none"
    connection_info,\* get_first_sumo: what add_service collected
    browserAlive,   \* get_first_sumo: browser.is_alive()
    published,      \* number of service records registered by announce_proxy_sumo
    initSock,       \* init_server's listening socket: "none", "bound", "closed"
    srvPc,          \* serving thread of init_server
    shutdownReq,    \* init_server.__shutdown_request
    tidy,           \* the tidy threads started by the handler, by position
    backlog,        \* connections waiting to be accepted
    hPc,            \* position of InitHandler.handle
    hs,             \* the handler's locals and what it sent
    hsLog,          \* outcome of every handler invocation so far, while proxy_init runs
    return_data,    \* proxy_init's return_data
    sess,           \* arguments proxy_session was called with
    sPc,            \* position of proxy_session's own thread
    data_queue,     \* number of tokens in data_queue (maxlen 1)
    srv,            \* relay listeners: socket bound, port, serving thread started
    handled,        \* the datagram a relay handler handled last, and its sendto() calls
    wd              \* watchdog bookkeeping: checks made, activity since last check

mainVars == <<mainPc, procState>>
startVars == <<stage, err>>
locVars == <<connection_info, browserAlive, published>>
initVars == <<initSock, srvPc, shutdownReq, tidy, backlog>>
hsVars == <<hPc, hs, hsLog, return_data>>
relayVars == <<repeaters, sess, sPc, data_queue, srv, handled, wd>>
cfgVars == <<variant, peers>>
vars == <<cfgVars, mainVars, startVars, locVars, initVars, hsVars, relayVars>>

Listeners == {"c2d", "d2c", "shared"}
NoSess == [client_ip |-> "none", ports |-> <<>>]
\* hs: client_ip and data are the handler's locals; request / response are the
\* messages the client and the device put on the wire, got / gotSumo what recv()
\* returned of them, toSumo / toClient what the handler sent with sendall().
NoHs == [client_ip |-> "none", request |-> <<>>, got |-> <<>>, data |-> <<>>,
         toSumo |-> <<>>, response |-> <<>>, gotSumo |-> <<>>, toClient |-> <<>>,
         client_d2c_port |-> -1, sumo_c2d_port |-> -1]
\* One relay listener: its socket and whether its serving thread runs.
IdleSrv == [bound |-> FALSE, port |-> -1, pc |-> "off"]
\* handled: the listener whose handler ran last, the datagram it was called
\* with (src, data), the sendto() calls it made, and how handle() ended.
NoHandled == [l |-> "none", src |-> "none", data |-> <<>>, out |-> <<>>, res |-> "none"]
NoWd == [checks |-> 0, active |-> FALSE, last |-> "none", lastActive |-> FALSE]

\* Variant of NewDataQueue: the deque is created empty, deque([], maxlen=1).
DataQueueCreatedEmpty == Len(<<>>)

\* collections.deque([True], maxlen=1)
NewDataQueue == 1

\* The state of a process that has just been created: nothing acquired.
FreshSession ==
    /\ stage' = "locate"
    /\ err' = "none"
    /\ connection_info' = <<>>
    /\ browserAlive' = TRUE
    /\ published' = 0
    /\ initSock' = "none"
    /\ srvPc' = "none"
    /\ shutdownReq' = FALSE
    /\ tidy' = <<>>
    /\ backlog' = 0
    /\ hPc' = "none"
    /\ hs' = NoHs
    /\ hsLog' = <<>>
    /\ return_data' = <<>>
    /\ repeaters' = 0
    /\ sess' = NoSess
    /\ sPc' = "none"
    /\ data_queue' = 0
    /\ srv' = [l \in Listeners |-> IdleSrv]
    /\ handled' = NoHandled
    /\ wd' = NoWd

Init ==
    /\ variant \in Variants
    /\ repeaters = 0
    /\ peers \in [client : ClientPorts, device : DevicePorts]
    /\ mainPc = "spawn"
    /\ procState = "none"
    /\ stage = "none"
    /\ err = "none"
    /\ connection_info = <<>>
    /\ browserAlive = TRUE
    /\ published = 0
    /\ initSock = "none"
    /\ srvPc = "none"
    /\ shutdownReq = FALSE
    /\ tidy = <<>>
    /\ backlog = 0
    /\ hPc = "none"
    /\ hs = NoHs
    /\ hsLog = <<>>
    /\ return_data = <<>>
    /\ sess = NoSess
    /\ sPc = "none"
    /\ data_queue = 0
    /\ srv = [l \in Listeners |-> IdleSrv]
    /\ handled = NoHandled
    /\ wd = NoWd

\* ------------------------------------------------------------ __main__ loop
\* proc = multiprocessing.Process(target=proc_wrapper); proc.start()
MainSpawn ==
    /\ mainPc = "spawn"
    /\ mainPc' = "join"
    /\ procState' = "running"
    /\ FreshSession
    /\ UNCHANGED cfgVars

\* Variant of MainJoin: the loop does not wait for the process to exit.
MainJoinNoWait ==
    /\ mainPc = "join"
    /\ mainPc' = (IF variant = "proxy" THEN "terminate" ELSE "sleep")
    /\ UNCHANGED <<procState, cfgVars, startVars, locVars, initVars, hsVars, relayVars>>

\* proc.join() returns once the session process has exited.
MainJoin ==
    /\ mainPc = "join"
    /\ procState = "exited"
    /\ mainPc' = (IF variant = "proxy" THEN "terminate" ELSE "sleep")
    /\ UNCHANGED <<procState, cfgVars, startVars, locVars, initVars, hsVars, relayVars>>

\* proc.terminate() (proxy.py only)
MainTerminate ==
    /\ mainPc = "terminate"
    /\ mainPc' = "sleep"
    /\ UNCHANGED <<procState, cfgVars, startVars, locVars, initVars, hsVars, relayVars>>

\* Variant of MainSleep: the loop is left after the first session.
MainSleepBreak ==
    /\ mainPc = "sleep"
    /\ mainPc' = "stopped"
    /\ UNCHANGED <<procState, cfgVars, startVars, locVars, initVars, hsVars, relayVars>>

\* print 'Restarting...'; time.sleep(1)
MainSleep ==
    /\ mainPc = "sleep"
    /\ mainPc' = "spawn"
    /\ UNCHANGED <<procState, cfgVars, startVars, locVars, initVars, hsVars, relayVars>>

\* start() raises: the exception leaves start() for proc_wrapper.
Raise(e) ==
    /\ stage' = "raised"
    /\ err' = e

\* Variant of ProcExit: the process is gone but what it held stays held.
ProcExitLeak ==
    /\ procState = "running"
    /\ stage \in {"raised", "returned"}
    /\ procState' = "exited"
    /\ stage' = "none"
    /\ UNCHANGED <<mainPc, cfgVars, err, locVars, initVars, hsVars, relayVars>>

\* proc_wrapper returns (after printing the exception, if any) and the process
\* exits: its threads end and the operating system closes its sockets.
ProcExit ==
    /\ procState = "running"
    /\ stage \in {"raised", "returned"}
    /\ procState' = "exited"
    /\ stage' = "none"
    /\ connection_info' = <<>>
    /\ browserAlive' = TRUE
    /\ published' = 0
    /\ initSock' = "none"
    /\ srvPc' = "none"
    /\ shutdownReq' = FALSE
    /\ tidy' = <<>>
    /\ backlog' = 0
    /\ hPc' = "none"
    /\ hs' = NoHs
    /\ hsLog' = <<>>
    /\ return_data' = <<>>
    /\ repeaters' = 0
    /\ sess' = NoSess
    /\ sPc' = "none"
    /\ data_queue' = 0
    /\ srv' = [l \in Listeners |-> IdleSrv]
    /\ handled' = NoHandled
    /\ wd' = NoWd
    /\ UNCHANGED <<mainPc, cfgVars, err>>

\* ------------------------------------------------------------- get_first_sumo
\* Listener.add_service: the browser thread found the service.
AddService ==
    /\ procState = "running"
    /\ stage = "locate"
    /\ browserAlive
    /\ connection_info = <<>>
    /\ connection_info' = <<SumoIp, InitPort>>
    /\ UNCHANGED <<cfgVars, mainVars, startVars, browserAlive, published, initVars, hsVars, relayVars>>

\* The zeroconf browser thread dies.
BrowserCrash ==
    /\ procState = "running"
    /\ stage = "locate"
    /\ browserAlive
    /\ browserAlive' = FALSE
    /\ UNCHANGED <<cfgVars, mainVars, startVars, connection_info, published, initVars, hsVars, relayVars>>

\* while len(connection_info) < 2 ... exits: browser.cancel(); return
LocateFound ==
    /\ procState = "running"
    /\ stage = "locate"
    /\ Len(connection_info) >= 2
    /\ stage' = "announce"
    /\ UNCHANGED <<cfgVars, mainVars, err, locVars, initVars, hsVars, relayVars>>

\* if not browser.is_alive(): raise
LocateCrashed ==
    /\ procState = "running"
    /\ stage = "locate"
    /\ Len(connection_info) < 2
    /\ ~browserAlive
    /\ Raise("BrowserCrashed")
    /\ UNCHANGED <<cfgVars, mainVars, locVars, initVars, hsVars, relayVars>>

\* if time.time() - started > wait_time: raise
LocateTimeout ==
    /\ procState = "running"
    /\ stage = "locate"
    /\ Len(connection_info) < 2
    /\ browserAlive
    /\ Raise("DiscoveryTimeout")
    /\ UNCHANGED <<cfgVars, mainVars, locVars, initVars, hsVars, relayVars>>

\* ------------------------------------------------------- announce_proxy_sumo
\* self._zc.register_service(info) for the next address
AnnounceRegister ==
    /\ procState = "running"
    /\ stage = "announce"
    /\ published < NumAddrs
    /\ published' = published + 1
    /\ UNCHANGED <<cfgVars, mainVars, startVars, connection_info, browserAlive, initVars, hsVars, relayVars>>

\* Variant of AnnounceFail: the failure is swallowed and start() goes on.
AnnounceFailIgnored ==
    /\ procState = "running"
    /\ stage = "announce"
    /\ published < NumAddrs
    /\ stage' = "init"
    /\ UNCHANGED <<cfgVars, mainVars, err, locVars, initVars, hsVars, relayVars>>

\* register_service raises
AnnounceFail ==
    /\ procState = "running"
    /\ stage = "announce"
    /\ published < NumAddrs
    /\ Raise("AnnounceFailure")
    /\ UNCHANGED <<cfgVars, mainVars, locVars, initVars, hsVars, relayVars>>

\* the loop over ip_addresses() is done; start() goes on to proxy_init
AnnounceDone ==
    /\ procState = "running"
    /\ stage = "announce"
    /\ published = NumAddrs
    /\ stage' = "init"
    /\ UNCHANGED <<cfgVars, mainVars, err, locVars, initVars, hsVars, relayVars>>

\* ------------------------------------------------------------------ proxy_init
\* init_server = SocketServer.TCPServer(('', init_port), InitHandler);
\* server_thread.start()
InitStart ==
    /\ procState = "running"
    /\ stage = "init"
    /\ initSock' = "bound"
    /\ srvPc' = "loop"
    /\ stage' = "join"
    /\ UNCHANGED <<cfgVars, mainVars, err, locVars, shutdownReq, tidy, backlog, hsVars, relayVars>>

\* the TCPServer constructor fails to bind the init port
InitBindFail ==
    /\ procState = "running"
    /\ stage = "init"
    /\ Raise("BindFailure")
    /\ UNCHANGED <<cfgVars, mainVars, locVars, initVars, hsVars, relayVars>>

\* A client connects to the init port: the connection waits in the backlog.
\* (Connections made after the serving thread has ended are never looked at
\* and are left out.)
ClientConnect ==
    /\ procState = "running"
    /\ initSock = "bound"
    /\ srvPc # "exited"
    /\ Len(hsLog) + backlog < MaxConn
    /\ backlog' = backlog + 1
    /\ UNCHANGED <<cfgVars, mainVars, startVars, locVars, initSock, srvPc, shutdownReq, tidy, hsVars, relayVars>>

\* serve_forever: while not self.__shutdown_request (the handler of the
\* request just finished, if any, is gone)
ServeLoop ==
    /\ procState = "running"
    /\ srvPc = "loop"
    /\ hs' = NoHs
    /\ IF shutdownReq
       THEN /\ srvPc' = "exited"
            /\ shutdownReq' = FALSE
       ELSE /\ srvPc' = "select"
            /\ UNCHANGED shutdownReq
    /\ UNCHANGED <<cfgVars, mainVars, startVars, locVars, initSock, tidy, backlog, hPc, hsLog, return_data, relayVars>>

\* select() times out with no connection pending
ServePoll ==
    /\ procState = "running"
    /\ srvPc = "select"
    /\ backlog = 0
    /\ srvPc' = "loop"
    /\ UNCHANGED <<cfgVars, mainVars, startVars, locVars, initSock, shutdownReq, tidy, backlog, hsVars, relayVars>>

\* select() reports a pending connection: accept it and run the handler
ServeAccept ==
    /\ procState = "running"
    /\ srvPc = "select"
    /\ backlog > 0
    /\ backlog' = backlog - 1
    /\ srvPc' = "handle"
    /\ hPc' = "recv"
    /\ hs' = [NoHs EXCEPT !.client_ip = ClientIp]
    /\ hsLog' = Append(hsLog, "run")
    /\ UNCHANGED <<cfgVars, mainVars, startVars, locVars, initSock, shutdownReq, tidy, return_data, relayVars>>

\* An exception leaves handle(): handle_error prints it, the connection is
\* closed and the serving thread goes back to its loop. `why` is the outcome
\* logged for the invocation.
HandlerRaise(why) ==
    /\ hPc' = "none"
    /\ srvPc' = "loop"
    /\ hs' = NoHs
    /\ hsLog' = [hsLog EXCEPT ![Len(hsLog)] = why]

\* A socket call or json.loads raises (socket.error, ValueError).
HandlerAbort == HandlerRaise("abort")

\* json_data['d2c_port'] / json_data['c2d_port'] raises KeyError: the message
\* is a JSON object without the port member.
HandlerMalformed == HandlerRaise("malformed")

\* data = self.request.recv(RECV_MAX); json.loads(data[:-1])['d2c_port'];
\* proxy.py then rewrites the member and serialises the request again
HandleRecv ==
    /\ procState = "running"
    /\ hPc = "recv"
    /\ \E msg \in ClientMsgs(peers.client) : \E chunk \in Chunks(msg) :
          IF /\ JsonValid(StripLast(chunk))
             /\ "d2c_port" \in DOMAIN JsonLoads(StripLast(chunk))
          THEN /\ hs' = [hs EXCEPT !.request = msg, !.got = chunk,
                                   !.client_d2c_port = JsonLoads(StripLast(chunk))["d2c_port"],
                                   !.data = ForwardRequest(variant, chunk)]
               /\ hPc' = "connect"
               /\ UNCHANGED <<srvPc, hsLog>>
          ELSE IF JsonValid(StripLast(chunk))
               THEN HandlerMalformed
               ELSE HandlerAbort
    /\ UNCHANGED <<cfgVars, mainVars, startVars, locVars, initSock, shutdownReq, tidy, backlog, return_data, relayVars>>

\* sumo_sock.connect((sumo_ip, init_port)); sumo_sock.sendall(data)
HandleSendSumo ==
    /\ procState = "running"
    /\ hPc = "connect"
    /\ hs' = [hs EXCEPT !.toSumo = hs.data]
    /\ hPc' = "await"
    /\ UNCHANGED <<cfgVars, mainVars, startVars, locVars, initVars, hsLog, return_data, relayVars>>

\* connect() or sendall() to the device raises
HandleSendSumoFail ==
    /\ procState = "running"
    /\ hPc = "connect"
    /\ HandlerAbort
    /\ UNCHANGED <<cfgVars, mainVars, startVars, locVars, initSock, shutdownReq, tidy, backlog, return_data, relayVars>>

\* data = sumo_sock.recv(RECV_MAX); json.loads(data[:-1])['c2d_port'];
\* proxy.py then rewrites the member and serialises the response again
HandleRecvSumo ==
    /\ procState = "running"
    /\ hPc = "await"
    /\ \E msg \in DeviceMsgs(peers.device) : \E chunk \in Chunks(msg) :
          IF /\ JsonValid(StripLast(chunk))
             /\ "c2d_port" \in DOMAIN JsonLoads(StripLast(chunk))
          THEN /\ hs' = [hs EXCEPT !.response = msg, !.gotSumo = chunk,
                                   !.sumo_c2d_port = JsonLoads(StripLast(chunk))["c2d_port"],
                                   !.data = ForwardResponse(variant, chunk)]
               /\ hPc' = "reply"
               /\ UNCHANGED <<srvPc, hsLog>>
          ELSE IF JsonValid(StripLast(chunk))
               THEN HandlerMalformed
               ELSE HandlerAbort
    /\ UNCHANGED <<cfgVars, mainVars, startVars, locVars, initSock, shutdownReq, tidy, backlog, return_data, relayVars>>

\* The ports tuple recorded for a handshake: (sumo_c2d_port, client_d2c_port,
\* prox_c2d_port, prox_d2c_port); sumo-proxy.py listens on the negotiated ports.
PortsOf(v, sumo_c2d_port, client_d2c_port) ==
    IF v = "proxy"
    THEN <<sumo_c2d_port, client_d2c_port, ProxC2D(sumo_c2d_port), ProxD2C(client_d2c_port)>>
    ELSE <<sumo_c2d_port, client_d2c_port, sumo_c2d_port, client_d2c_port>>

\* self.request.sendall(data); return_data.extend(...);
\* threading.Thread(target=tidy).start(); handle() returns
HandleReply ==
    /\ procState = "running"
    /\ hPc = "reply"
    /\ hs' = [hs EXCEPT !.toClient = hs.data]
    /\ return_data' = Append(return_data,
                             [client_ip |-> hs.client_ip,
                              ports |-> PortsOf(variant, hs.sumo_c2d_port, hs.client_d2c_port)])
    /\ tidy' = Append(tidy, "shutdown")
    /\ hsLog' = [hsLog EXCEPT ![Len(hsLog)] = "ok"]
    /\ hPc' = "none"
    /\ srvPc' = "loop"
    /\ UNCHANGED <<cfgVars, mainVars, startVars, locVars, initSock, shutdownReq, backlog, relayVars>>

\* sendall() to the client raises (the client has gone)
HandleReplyFail ==
    /\ procState = "running"
    /\ hPc = "reply"
    /\ HandlerAbort
    /\ UNCHANGED <<cfgVars, mainVars, startVars, locVars, initSock, shutdownReq, tidy, backlog, return_data, relayVars>>

\* tidy(): init_server.shutdown() sets the request flag, then waits
TidyShutdown ==
    /\ procState = "running"
    /\ \E i \in DOMAIN tidy :
          /\ tidy[i] = "shutdown"
          /\ tidy' = [tidy EXCEPT ![i] = "wait"]
    /\ shutdownReq' = TRUE
    /\ UNCHANGED <<cfgVars, mainVars, startVars, locVars, initSock, srvPc, backlog, hsVars, relayVars>>

\* tidy(): shutdown() returns once serve_forever has left its loop;
\* init_server.server_close()
TidyClose ==
    /\ procState = "running"
    /\ srvPc = "exited"
    /\ \E i \in DOMAIN tidy :
          /\ tidy[i] = "wait"
          /\ tidy' = [tidy EXCEPT ![i] = "done"]
    /\ initSock' = "closed"
    /\ backlog' = 0
    /\ UNCHANGED <<cfgVars, mainVars, startVars, locVars, srvPc, shutdownReq, hsVars, relayVars>>

\* server_thread.join(wait_time) returns with the thread ended; proxy_init
\* returns return_data and start() unpacks it
\* into client_ip, ports (no handler runs any more: the log of the handler
\* invocations ends with proxy_init)
InitReturn ==
    /\ procState = "running"
    /\ stage = "join"
    /\ srvPc = "exited"
    /\ IF Len(return_data) = 1
       THEN /\ sess' = return_data[1]
            /\ stage' = "check"
            /\ hsLog' = <<>>
            /\ UNCHANGED err
       ELSE /\ Raise("Unpack")
            /\ UNCHANGED <<sess, hsLog>>
    /\ UNCHANGED <<cfgVars, mainVars, locVars, initVars, hPc, hs, return_data, repeaters, sPc, data_queue, srv, handled, wd>>

\* Variant of InitTimeout: proxy_init waits for a handshake without limit.
InitTimeoutNever ==
    /\ FALSE
    /\ UNCHANGED vars

\* join() timed out: if server_thread.is_alive(): raise
InitTimeout ==
    /\ procState = "running"
    /\ stage = "join"
    /\ srvPc # "exited"
    /\ Raise("HandshakeTimeout")
    /\ UNCHANGED <<cfgVars, mainVars, locVars, initVars, hsVars, relayVars>>

\* if ports[0] == 0: raise; otherwise start() calls proxy_session
StartCheck ==
    /\ procState = "running"
    /\ stage = "check"
    /\ IF sess.ports[1] = 0
       THEN /\ Raise("DeviceBusy")
            /\ UNCHANGED sPc
       ELSE /\ stage' = "session"
            /\ sPc' = "bind"
            /\ UNCHANGED err
    /\ UNCHANGED <<cfgVars, mainVars, locVars, initVars, hsVars, repeaters, sess, data_queue, srv, handled, wd>>

\* --------------------------------------------------------------- proxy_session
sumo_c2d_port == sess.ports[1]
client_d2c_port == sess.ports[2]
prox_c2d_port == sess.ports[3]
prox_d2c_port == sess.ports[4]
sumo_ip == connection_info[1]

\* sumo-proxy.py: if c2d_port == d2c_port, a single server is started
SharedMode == variant = "sumo" /\ sumo_c2d_port = client_d2c_port

\* The listener the first UDPServer(...) of proxy_session creates.
FirstListener == IF SharedMode THEN "shared" ELSE "c2d"

\* t.daemon = True; t.start() for every bound listener
StartThreads(s) == [l \in Listeners |-> IF s[l].bound THEN [s[l] EXCEPT !.pc = "wait"] ELSE s[l]]

\* What self._repeaters can hold: proxy.py is constructed with no repeaters
\* or with MaxRepeaters of them, sumo-proxy.py has its one fixed sink.
ConfiguredRepeaters == IF variant = "proxy" THEN {0, MaxRepeaters} ELSE {1}

\* data_queue = deque([True], maxlen=1); send_socket = socket(...);
\* repeaters = self._repeaters;
\* the first UDPServer is bound (and, in shared mode, its thread started)
SessBindFirst ==
    /\ procState = "running"
    /\ stage = "session"
    /\ sPc = "bind"
    /\ data_queue' = NewDataQueue
    /\ repeaters' \in ConfiguredRepeaters
    /\ LET bound == [srv EXCEPT ![FirstListener] =
                        [@ EXCEPT !.bound = TRUE, !.port = prox_c2d_port]]
       IN  IF SharedMode
           THEN srv' = StartThreads(bound) /\ sPc' = "pop"
           ELSE srv' = bound /\ sPc' = "bind2"
    /\ UNCHANGED <<cfgVars, mainVars, startVars, locVars, initVars, hsVars, sess, handled, wd>>

\* the first UDPServer constructor fails to bind (port held by someone else)
SessBindFirstFail ==
    /\ procState = "running"
    /\ stage = "session"
    /\ sPc = "bind"
    /\ data_queue' = NewDataQueue
    /\ sPc' = "none"
    /\ Raise("BindFailure")
    /\ UNCHANGED <<cfgVars, mainVars, locVars, initVars, hsVars, repeaters, sess, srv, handled, wd>>

\* d2c_server = UDPServer(('', prox_d2c_port), D2CHandler); t1.start();
\* t2.start(). The bind cannot succeed on the port c2d_server already holds.
SessBindSecond ==
    /\ procState = "running"
    /\ stage = "session"
    /\ sPc = "bind2"
    /\ srv["c2d"].port # prox_d2c_port
    /\ srv' = StartThreads([srv EXCEPT !["d2c"] =
                                [@ EXCEPT !.bound = TRUE, !.port = prox_d2c_port]])
    /\ sPc' = "pop"
    /\ UNCHANGED <<cfgVars, mainVars, startVars, locVars, initVars, hsVars, repeaters, sess, data_queue, handled, wd>>

\* the second UDPServer constructor fails to bind
SessBindSecondFail ==
    /\ procState = "running"
    /\ stage = "session"
    /\ sPc = "bind2"
    /\ sPc' = "none"
    /\ Raise("BindFailure")
    /\ UNCHANGED <<cfgVars, mainVars, locVars, initVars, hsVars, repeaters, sess, data_queue, srv, handled, wd>>

\* Variant of DequeAppend: the handler does not record the datagram.
DequeAppendLost(q) == q

\* data_queue.append(True) on a deque of maxlen 1
DequeAppend(q) == IF q + 1 > 1 THEN 1 ELSE q + 1

\* Variant of Dest: the shared handler does not look at the source address.
DestIgnoringSource(l, src) ==
    CASE l = "c2d" -> <<sumo_ip, sumo_c2d_port>>
      [] l = "d2c" -> <<sess.client_ip, client_d2c_port>>
      [] l = "shared" -> <<sumo_ip, sumo_c2d_port>>

\* Where a handler forwards the datagram it received.
Dest(l, src) ==
    CASE l = "c2d" -> <<sumo_ip, sumo_c2d_port>>
      [] l = "d2c" -> <<sess.client_ip, client_d2c_port>>
      [] l = "shared" -> IF src = sess.client_ip
                         THEN <<sumo_ip, sumo_c2d_port>>
                         ELSE <<sess.client_ip, sumo_c2d_port>>

\* The marker byte a handler puts before a repeated copy.
Marker(l, src) ==
    CASE l = "c2d" -> ">"
      [] l = "d2c" -> "<"
      [] l = "shared" -> IF src = sess.client_ip THEN ">" ELSE "<"

\* '>' + data, '<' + data
Tagged(l, src, data) == <<Marker(l, src)>> \o data

\* Number of repeaters a handler sends copies to.
NumSinks == IF variant = "proxy" THEN repeaters ELSE 1

\* The i-th target of the repeater loop.
SinkAt(i) == IF variant = "proxy" THEN Sink(i) ELSE RepeatSink

\* Source addresses a handler distinguishes: only the shared handler reads
\* self.client_address.
SrcsOf(l) == IF l = "shared" THEN SrcIps ELSE {"any"}

\* One sendto() call: target, payload and whether it returned (ok) or raised.
Sent(to, payload) == [to |-> to, payload |-> payload, ok |-> TRUE]

\* Variant of Calls: the tagged copy is what goes to the counterpart as well.
CallsTaggedForward(l, src, data) ==
    <<Sent(Dest(l, src), Tagged(l, src, data))>>
    \o [i \in 1 .. NumSinks |-> Sent(SinkAt(i), Tagged(l, src, data))]

\* The sendto() calls of one handle(), in program order: the datagram to the
\* counterpart, then a tagged copy to every repeater.
Calls(l, src, data) ==
    <<Sent(Dest(l, src), data)>>
    \o [i \in 1 .. NumSinks |-> Sent(SinkAt(i), Tagged(l, src, data))]

\* The calls made when the k-th one raises: the exception leaves handle().
CallsUntil(calls, k) == [i \in 1 .. k |-> [calls[i] EXCEPT !.ok = (i < k)]]

\* A listener's serving thread receives a datagram and runs handle() to its
\* end: data_queue.append(True), then every sendto().
RelayHandle(l) ==
    /\ procState = "running"
    /\ srv[l].pc = "wait"
    /\ data_queue' = DequeAppend(data_queue)
    /\ wd' = [wd EXCEPT !.active = TRUE]
    /\ \E src \in SrcsOf(l), data \in Payloads :
          handled' = [l |-> l, src |-> src, data |-> data,
                      out |-> Calls(l, src, data), res |-> "returned"]
    /\ UNCHANGED <<cfgVars, mainVars, startVars, locVars, initVars, hsVars, repeaters, sess, sPc, srv>>

\* Variant of RelayHandleFail: the exception ends the listener's thread.
RelayHandleFailFatal(l) ==
    /\ procState = "running"
    /\ srv[l].pc = "wait"
    /\ data_queue' = DequeAppend(data_queue)
    /\ wd' = [wd EXCEPT !.active = TRUE]
    /\ srv' = [srv EXCEPT ![l] = [@ EXCEPT !.pc = "dead"]]
    /\ \E src \in SrcsOf(l), data \in Payloads :
          handled' = [l |-> l, src |-> src, data |-> data,
                      out |-> CallsUntil(Calls(l, src, data), 1), res |-> "raised"]
    /\ UNCHANGED <<cfgVars, mainVars, startVars, locVars, initVars, hsVars, repeaters, sess, sPc>>

\* The same, with one sendto() raising: handle_error prints the exception and
\* the serving thread goes on to the next datagram.
RelayHandleFail(l) ==
    /\ procState = "running"
    /\ srv[l].pc = "wait"
    /\ data_queue' = DequeAppend(data_queue)
    /\ wd' = [wd EXCEPT !.active = TRUE]
    /\ \E src \in SrcsOf(l), data \in Payloads :
          \E k \in 1 .. (NumSinks + 1) :
             handled' = [l |-> l, src |-> src, data |-> data,
                         out |-> CallsUntil(Calls(l, src, data), k), res |-> "raised"]
    /\ UNCHANGED <<cfgVars, mainVars, startVars, locVars, initVars, hsVars, repeaters, sess, sPc, srv>>

\* Number of watchdog checks made so far, counted up to 2 (first / later).
CountCheck(n) == IF n >= 2 THEN 2 ELSE n + 1

\* while True: try: data_queue.pop() ... succeeded; time.sleep(comms_time) next
WatchPop ==
    /\ procState = "running"
    /\ stage = "session"
    /\ sPc = "pop"
    /\ data_queue > 0
    /\ data_queue' = data_queue - 1
    /\ sPc' = "sleep"
    /\ wd' = [checks |-> CountCheck(wd.checks), active |-> FALSE,
              last |-> "pass", lastActive |-> wd.active]
    /\ UNCHANGED <<cfgVars, mainVars, startVars, locVars, initVars, hsVars, repeaters, sess, srv, handled>>

\* data_queue.pop() raises IndexError: raise Exception('No comms ...')
WatchFail ==
    /\ procState = "running"
    /\ stage = "session"
    /\ sPc = "pop"
    /\ data_queue = 0
    /\ sPc' = "none"
    /\ wd' = [checks |-> CountCheck(wd.checks), active |-> FALSE,
              last |-> "fail", lastActive |-> wd.active]
    /\ Raise("Inactive")
    /\ UNCHANGED <<cfgVars, mainVars, locVars, initVars, hsVars, repeaters, sess, data_queue, srv, handled>>

\* time.sleep(comms_time) is over
WatchSleep ==
    /\ procState = "running"
    /\ stage = "session"
    /\ sPc = "sleep"
    /\ sPc' = "pop"
    /\ UNCHANGED <<cfgVars, mainVars, startVars, locVars, initVars, hsVars, repeaters, sess, data_queue, srv, handled, wd>>

\* ------------------------------------------------------------- specification
Next ==
    \/ MainSpawn \/ MainJoin \/ MainTerminate \/ MainSleep \/ ProcExit
    \/ AddService \/ BrowserCrash \/ LocateFound \/ LocateCrashed \/ LocateTimeout
    \/ AnnounceRegister \/ AnnounceFail \/ AnnounceDone
    \/ InitStart \/ InitBindFail \/ ClientConnect
    \/ ServeLoop \/ ServePoll \/ ServeAccept
    \/ HandleRecv \/ HandleSendSumo \/ HandleSendSumoFail \/ HandleRecvSumo
    \/ HandleReply \/ HandleReplyFail
    \/ TidyShutdown \/ TidyClose
    \/ InitReturn \/ InitTimeout \/ StartCheck
    \/ SessBindFirst \/ SessBindFirstFail \/ SessBindSecond \/ SessBindSecondFail
    \/ \E l \in Listeners : RelayHandle(l)
    \/ \E l \in Listeners : RelayHandleFail(l)
    \/ WatchPop \/ WatchFail \/ WatchSleep

Spec == Init /\ [][Next]_vars

\* The __main__ loop and the exit of a finished process always make progress.
Supervision == MainSpawn \/ MainJoin \/ MainTerminate \/ MainSleep \/ ProcExit

FairSpec == Spec /\ WF_vars(Supervision)

\* The steps of the session process's main thread, i.e. of start(): in every
\* stage it polls, times out or goes on, so it never stops taking steps.
StartThread ==
    \/ LocateFound \/ LocateCrashed \/ LocateTimeout
    \/ AnnounceRegister \/ AnnounceFail \/ AnnounceDone
    \/ InitStart \/ InitBindFail \/ InitReturn \/ InitTimeout \/ StartCheck
    \/ SessBindFirst \/ SessBindFirstFail \/ SessBindSecond \/ SessBindSecondFail
    \/ WatchPop \/ WatchFail \/ WatchSleep

\* The supervisor and the main thread of the session are both scheduled; the
\* peers (browser results, clients, the device, datagrams) are not obliged to
\* do anything.
LiveSpec == Spec /\ WF_vars(Supervision) /\ WF_vars(StartThread)

\* ------------------------------------------------------------------- claims

\* A handshake of this session recorded the busy sentinel as the device's port.
BusyAnnounced == \E i \in DOMAIN return_data : return_data[i].ports[1] = 0

\* C1: in every session in which proxy_init has returned and the device's
\* response announced receive port 0, start() fails with the device-busy
\* error, no relay listener is ever bound and no watchdog check is ever made.
C1_BusyShortCircuits ==
    BusyAnnounced =>
        /\ \A l \in Listeners : ~srv[l].bound
        /\ wd.checks = 0
        /\ stage # "session"
        /\ (stage = "raised" /\ err # "HandshakeTimeout") => err = "DeviceBusy"

\* A message as sent is complete: a JSON object followed by the NUL.
Complete(msg) == msg[Len(msg)] = Nul /\ JsonValid(StripLast(msg))

\* The value of member k of a message.
Member(msg, k) == JsonLoads(StripLast(msg))[k]

\* C2: the handler sends the request to the device only after it has received
\* the client's whole request and (proxy.py) rewritten d2c_port, and sends the
\* response to the client only after it has received the device's whole
\* response and (proxy.py) rewritten c2d_port; what it sends is a complete
\* message.
C2_RelayAfterFullRewrite ==
    /\ hPc \in {"recv", "connect"} => hs.toSumo = <<>>
    /\ hPc \in {"recv", "connect", "await", "reply"} => hs.toClient = <<>>
    /\ hs.toSumo # <<>> =>
          /\ hs.got = hs.request
          /\ Complete(hs.toSumo)
          /\ variant = "proxy" =>
                Member(hs.toSumo, "d2c_port") = Member(hs.request, "d2c_port") + 1
    /\ hs.toClient # <<>> =>
          /\ hs.toSumo # <<>>
          /\ hs.gotSumo = hs.response
          /\ Complete(hs.toClient)
          /\ variant = "proxy" =>
                Member(hs.toClient, "c2d_port") = Member(hs.response, "c2d_port") - 1

\* C2 witness: proxy.py has completed one exchange.
C2_Witness == variant = "proxy" /\ hs.toClient # <<>> /\ hPc = "none"

\* C3: once a handshake exchange has completed, no further connection is
\* accepted and handled by the init listener.
C3_SingleShot == \A i \in 1 .. (Len(hsLog) - 1) : hsLog[i] # "ok"

\* The message ends with one NUL and holds no other.
OneTrailingNul(msg) ==
    /\ msg[Len(msg)] = Nul
    /\ \A i \in 1 .. (Len(msg) - 1) : msg[i] # Nul

\* The record `rewritten` is the record `original` with member k moved by
\* offset and nothing else changed; moving it back gives the original.
FieldLocal(original, rewritten, k, offset) ==
    /\ DOMAIN rewritten = DOMAIN original
    /\ \A m \in DOMAIN original \ {k} : rewritten[m] = original[m]
    /\ rewritten[k] = original[k] + offset
    /\ [rewritten EXCEPT ![k] = @ - offset] = original

C5_RewrittenPortsDistinct ==
    variant = "proxy" =>
        \A i \in DOMAIN return_data :
            LET t == return_data[i].ports
            IN  t[3] # t[1] /\ t[4] # t[2] /\ t[3] # t[4]

\* C6 as stated: every watchdog check fails if and only if no datagram was
\* recorded since the check before it.
C6_FailsIffSilent ==
    wd.last # "none" => (wd.last = "fail" <=> ~wd.lastActive)

\* C6 as amended: the first check always passes; every later check fails if
\* and only if no datagram was recorded since the check before it; a datagram
\* recorded after a check leaves a token that makes the next check pass, and
\* after the first check a token is there only if a datagram was recorded.
C6_WatchdogAfterFirstCheck ==
    /\ (wd.last # "none" /\ wd.checks = 1) => wd.last = "pass"
    /\ (wd.last # "none" /\ wd.checks > 1) => (wd.last = "fail" <=> ~wd.lastActive)
    /\ wd.active => data_queue > 0
    /\ (wd.checks >= 1 /\ data_queue > 0) => wd.active

\* C6 witness: a check after the first has passed because a datagram was
\* recorded in the interval before it.
C6_Witness == wd.checks = 2 /\ wd.last = "pass" /\ wd.lastActive

\* The device and client endpoints of the running session.
DeviceEndpoint == <<connection_info[1], sess.ports[1]>>
ClientEndpoint == <<sess.client_ip, sess.ports[2]>>

\* C7: (sumo-proxy.py, shared-port mode) every datagram handled is forwarded
\* to exactly one of the two endpoints: the device's if its source is the
\* recorded client address, the client's otherwise.
C7_SharedExactlyOne ==
    handled.l = "shared" =>
        /\ Len(handled.out) >= 1
        /\ handled.out[1].to =
              (IF handled.src = sess.client_ip THEN DeviceEndpoint ELSE ClientEndpoint)
        /\ \A i \in 2 .. Len(handled.out) :
              handled.out[i].to \notin {DeviceEndpoint, ClientEndpoint}

\* C7 witness: the shared handler has handled a datagram that came from the
\* device.
C7_Witness == handled.l = "shared" /\ handled.src = SumoIp /\ handled.res = "returned"

\* C8: in distinct-port mode the c2d listener forwards every datagram,
\* unchanged, to (device address, device port) and the d2c listener to (client
\* address, client port), as recorded by the one handshake of the session;
\* the session's endpoints are those of that handshake as long as a listener
\* is bound.
C8_DistinctFixedDest ==
    /\ (\E l \in Listeners : srv[l].bound) =>
          /\ Len(return_data) = 1
          /\ sess = return_data[1]
          /\ connection_info = <<SumoIp, InitPort>>
    /\ handled.l = "c2d" =>
          /\ handled.out[1].to = <<SumoIp, return_data[1].ports[1]>>
          /\ handled.out[1].payload = handled.data
    /\ handled.l = "d2c" =>
          /\ handled.out[1].to = <<return_data[1].client_ip, return_data[1].ports[2]>>
          /\ handled.out[1].payload = handled.data

\* C8 witness: proxy.py's d2c listener has handled a datagram.
C8_Witness == variant = "proxy" /\ handled.l = "d2c" /\ handled.res = "returned"

\* The marker of the direction the last datagram was forwarded in.
DirectionMarker ==
    IF handled.l = "c2d" \/ (handled.l = "shared" /\ handled.src = sess.client_ip)
    THEN ">" ELSE "<"

\* C9: for every datagram forwarded, each configured repeater is sent exactly
\* one copy, the marker byte of the direction followed by the datagram, and
\* the copy sent to the counterpart carries no marker.
C9_EverySinkOneCopy ==
    (handled.l # "none" /\ handled.out[1].ok /\ NumSinks >= 1) =>
        /\ handled.out[1].payload = handled.data
        /\ \A i \in 1 .. NumSinks :
              /\ Cardinality({j \in DOMAIN handled.out : handled.out[j].to = SinkAt(i)}) = 1
              /\ \A j \in DOMAIN handled.out :
                    handled.out[j].to = SinkAt(i) =>
                        handled.out[j].payload = <<DirectionMarker>> \o handled.data

\* Order of the stages of start().
StageRank(st) ==
    CASE st = "locate" -> 1
      [] st = "announce" -> 2
      [] st = "init" -> 3
      [] st = "join" -> 4
      [] st = "check" -> 5
      [] st = "session" -> 6
      [] OTHER -> 0

\* A process that has just been created and has acquired nothing.
FreshStart ==
    /\ procState = "running"
    /\ stage = "locate"
    /\ connection_info = <<>>
    /\ published = 0
    /\ initSock = "none"
    /\ \A l \in Listeners : ~srv[l].bound

\* C10: the supervisor loop never leaves its cycle; whenever a session has
\* ended, for whatever reason, a new session is eventually started from
\* device discovery with nothing acquired; within a process the stages only
\* move forward, so nothing is resumed or retried in place.
C10_AlwaysRestarts ==
    /\ [](mainPc \in {"spawn", "join", "terminate", "sleep"})
    /\ (stage \in {"raised", "returned"}) ~> FreshStart
    /\ [][(StageRank(stage) > 0 /\ StageRank(stage') > 0)
             => StageRank(stage') >= StageRank(stage)]_vars

\* C10 witness: the supervisor is about to create the next process after a
\* session that ended on inactivity.
C10_Witness == mainPc = "spawn" /\ procState = "exited" /\ err = "Inactive"

\* Nothing a session acquires is held: no handshake listener, no relay
\* listener, no published service record, and none of its threads runs.
NothingHeld ==
    /\ initSock # "bound"
    /\ \A l \in Listeners : ~srv[l].bound /\ srv[l].pc = "off"
    /\ published = 0
    /\ srvPc = "none"
    /\ hPc = "none"

\* C11: once a session's process has ended, for whatever reason, nothing it
\* acquired is held any more, and the next session begins device discovery
\* with nothing held: no listener or published record of an earlier session
\* exists while a later one runs.
C11_ReleasedBeforeRestart ==
    /\ procState # "running" => NothingHeld
    /\ (procState = "running" /\ stage = "locate") => NothingHeld

\* C11 witness: a session that had published its records and bound its
\* listeners has failed on inactivity and ended; the supervisor is about to
\* restart.
C11_Witness ==
    /\ procState = "exited"
    /\ mainPc = "sleep"
    /\ err = "Inactive"
    /\ NothingHeld

\* No handler invocation of this session has completed an exchange.
NoHandshakeCompleted == return_data = <<>>

\* C12: when no handshake completes, proxy_init fails with the handshake
\* timeout error, and when it has failed with it the handshake listener is
\* no longer bound and its serving thread no longer serves.
C12_TimeoutReleasesListener ==
    /\ (stage = "raised" /\ initSock # "none" /\ NoHandshakeCompleted)
          => err = "HandshakeTimeout"
    /\ (stage = "raised" /\ err = "HandshakeTimeout")
          => (initSock # "bound" /\ srvPc \in {"none", "exited"})

\* C13: after a malformed handshake (a message without its port member) the
\* interceptor services no further handshake in that session, and the session
\* has no completed handshake to start a relay with.
C13_MalformedIsFatal ==
    \A i \in DOMAIN hsLog :
        hsLog[i] = "malformed" =>
            /\ i = Len(hsLog)
            /\ return_data = <<>>

\* A relay listener is bound on port p.
PortBound(p) == \E l \in Listeners : srv[l].bound /\ srv[l].port = p

\* C14: (proxy.py) from the moment the rewritten request has told the device
\* the proxy's d2c port, and the rewritten response has told the client the
\* proxy's c2d port, a relay listener is bound on that port for as long as
\* the session is active.
C14_PromisedPortsBound ==
    (variant = "proxy" /\ procState = "running" /\ stage # "raised") =>
        /\ hs.toSumo # <<>> => PortBound(Member(hs.toSumo, "d2c_port"))
        /\ hs.toClient # <<>> => PortBound(Member(hs.toClient, "c2d_port"))

\* C15: once a datagram has been recorded in a relay session, no operation
\* puts the activity record back into the state "no activity has happened".
C15_ActivityNeverRegresses ==
    (stage = "session" /\ handled.l # "none") => data_queue > 0

\* C16: within one session start() moves through locate, announce, handshake
\* (init, join, check) and relay in that order, one stage at a time; a stage
\* is entered only with what the one before it produced; once start() has
\* raised, it only ends: nothing is bound, published or checked afterwards.
C16_StagesInOrder ==
    /\ [](StageRank(stage) >= 2 => connection_info = <<SumoIp, InitPort>>)
    /\ [](StageRank(stage) >= 3 => published = NumAddrs)
    /\ [](StageRank(stage) >= 5 =>
             (srvPc = "exited" /\ Len(return_data) = 1 /\ sess = return_data[1]))
    /\ []((wd.checks > 0 \/ \E l \in Listeners : srv[l].bound) =>
             (stage \in {"session", "raised"} /\ sess.ports[1] # 0))
    /\ [][stage' # stage =>
             \/ StageRank(stage) > 0 /\ StageRank(stage') = StageRank(stage) + 1
             \/ StageRank(stage) > 0 /\ stage' = "raised"
             \/ stage = "raised" /\ stage' = "none"
             \/ stage = "none" /\ stage' = "locate"]_vars
    /\ [][stage = "raised" =>
             /\ stage' \in {"raised", "none"}
             /\ published' <= published
             /\ initSock' = "bound" => initSock = "bound"
             /\ \A l \in Listeners : srv'[l].bound => srv[l].bound
             /\ wd'.checks <= wd.checks]_vars

\* C16 witness: the relay stage runs, the watchdog has made a check.
C16_Witness == stage = "session" /\ sPc = "sleep" /\ wd.checks = 1

\* C17: the supervisor goes past join() only when the session process is
\* gone, and a process that is gone has no thread left: no serving thread, no
\* handler, no tidy thread, no relay listener thread, no watchdog.
C17_OneSessionAtATime ==
    /\ mainPc \in {"spawn", "terminate", "sleep"} => procState # "running"
    /\ procState # "running" =>
          /\ stage = "none"
          /\ srvPc = "none"
          /\ hPc = "none"
          /\ tidy = <<>>
          /\ sPc = "none"
          /\ \A l \in Listeners : srv[l].pc = "off"

\* C17 witness: proxy.py's loop is past join() after a session whose relay
\* listeners were running.
C17_Witness == mainPc = "terminate" /\ procState = "exited" /\ err = "Inactive"

\* C18: after a sendto() has raised in a relay handler the listener is still
\* bound and its thread still serves, so the next datagram is handled; once
\* the relay listeners serve, start() fails with the inactivity error only.
C18_SendErrorNotFatal ==
    /\ handled.res = "raised" =>
          /\ srv[handled.l].bound
          /\ srv[handled.l].pc = "wait"
          /\ ENABLED RelayHandle(handled.l)
    /\ (stage = "raised" /\ \E l \in Listeners : srv[l].pc # "off") => err = "Inactive"

\* C18 witness: the forwarding sendto() of a handler has raised and the
\* watchdog goes on with its checks.
C18_Witness ==
    /\ handled.res = "raised"
    /\ ~handled.out[1].ok
    /\ stage = "session"
    /\ wd.checks = 2
    /\ wd.last = "pass"

\* A relay handler handles a datagram.
Traffic == \E l \in Listeners : RelayHandle(l) \/ RelayHandleFail(l)

\* C19: unless datagrams keep arriving for ever, every session ends with
\* start() failing: no stage waits for ever, whatever the peers do or fail to
\* do (no device discovered, no client, a device that never answers, traffic
\* that stops). Discovery fails with the discovery errors, the wait for a
\* handshake with the handshake timeout (or the unpack error), the watchdog
\* with the inactivity error.
C19_NoStageWaitsForever ==
    /\ ([]<><<Traffic>>_vars) \/ ((procState = "running") ~> (stage = "raised"))
    /\ [][(stage = "locate" /\ stage' = "raised")
             => err' \in {"DiscoveryTimeout", "BrowserCrashed"}]_vars
    /\ [][(stage = "join" /\ stage' = "raised")
             => err' \in {"HandshakeTimeout", "Unpack"}]_vars
    /\ [][(stage = "session" /\ sPc = "pop" /\ stage' = "raised")
             => err' = "Inactive"]_vars

\* C19 witness: the device never answered the relayed request and proxy_init
\* has failed with the handshake timeout.
C19_Witness == stage = "raised" /\ err = "HandshakeTimeout" /\ hPc = "await"

\* C20: (proxy.py) every recorded quadruple has prox_d2c_port =
\* client_d2c_port + 1 and prox_c2d_port = sumo_c2d_port - 1, whatever the
\* ports; the forwarded request and response carry exactly these values; a
\* device port of 0 goes to the client as -1.
C20_RewriteUnconditional ==
    variant = "proxy" =>
        /\ \A i \in DOMAIN return_data :
              LET t == return_data[i].ports
              IN  t[4] = t[2] + 1 /\ t[3] = t[1] - 1
        /\ hs.toClient # <<>> =>
              LET t == return_data[Len(return_data)].ports
              IN  /\ t[1] = Member(hs.response, "c2d_port")
                  /\ t[2] = Member(hs.request, "d2c_port")
                  /\ Member(hs.toSumo, "d2c_port") = t[4]
                  /\ Member(hs.toClient, "c2d_port") = t[3]
                  /\ t[1] = 0 => Member(hs.toClient, "c2d_port") = -1

\* C20 witness: the device announced the busy sentinel and proxy.py has
\* returned the response to the client.
C20_Witness ==
    /\ variant = "proxy"
    /\ hs.toClient # <<>>
    /\ Member(hs.response, "c2d_port") = 0
    /\ Member(hs.toClient, "c2d_port") = -1

\* No datagram has been handled in this relay session.
NoDatagramYet == handled.l = "none"

\* C21: data_queue is created holding its token, so the first watchdog check
\* of a relay session passes; a session that receives no datagram at all
\* fails with the inactivity error at its second check, never at the first;
\* the queue never holds more than one token, however many datagrams arrive
\* between two checks.
C21_FirstCheckPasses ==
    /\ data_queue \in {0, 1}
    /\ (stage = "session" /\ sPc \in {"bind2", "pop", "sleep"} /\ wd.checks = 0)
          => data_queue = 1
    /\ wd.checks = 1 => wd.last = "pass"
    /\ (NoDatagramYet /\ wd.checks = 1) => data_queue = 0
    /\ (NoDatagramYet /\ wd.checks = 2) =>
          (wd.last = "fail" /\ stage = "raised" /\ err = "Inactive")

\* C21 witness: a relay session that received no datagram has failed at its
\* second check.
C21_Witness ==
    /\ NoDatagramYet
    /\ wd.checks = 2
    /\ wd.last = "fail"
    /\ \E l \in Listeners : srv[l].pc = "wait"

====
